---- MODULE Spec2Model ----
(***************************************************************************)
(* Training orchestration of src/train/main.py: main() and train() as a    *)
(* process that can be launched, killed and launched again over a          *)
(* persistent save directory, and the fine-tune weight loader              *)
(* load_my_state_dict as a function over named weights; and the two passes *)
(* of src/eval/mahalanobis.py over a labelled dataset.                     *)
(***************************************************************************)
EXTENDS Integers, Sequences, FiniteSets, TLC

VARIABLES
    args,       \* the parsed command line of the running (or last) process
    datadir,    \* os.path.exists(args.datadir)
    disk,       \* path -> file, everything the program reads or writes
    disk0,      \* history: the disk as it was when the process was launched
    pc,         \* position of the process in main()/train()
    mem,        \* the local variables of train()
    hist,       \* history: one entry per epoch whose metric has been computed
    err,        \* the exception that ended the process, "" if none
    run,        \* how many processes have been launched so far
    lastExit,   \* history: how the previous process ended
    own_state,  \* load_my_state_dict: the target model's state dict
    state_dict, \* load_my_state_dict: the source weights, in iteration order
    idx,        \* load_my_state_dict: number of source items processed
    report,     \* load_my_state_dict: names printed as skipped / mismatched
    lpc,        \* load_my_state_dict: "loop", "done" or "raised"
    stats       \* mahalanobis.py: the locals of main() and the saved artifact

trainVars == <<args, datadir, disk, disk0, pc, mem, hist, err, run, lastExit>>
loadVars == <<own_state, state_dict, idx, report, lpc>>
vars == <<args, datadir, disk, disk0, pc, mem, hist, err, run, lastExit,
          own_state, state_dict, idx, report, lpc, stats>>

----------------------------------------------------------------------------
\* Bounds of the model.
MaxEpochs == 3        \* args.num_epochs ranges over 1..MaxEpochs
MaxIoU == 2           \* validation IoU in [0,1], in units of 1/MaxIoU
MaxLoss == 1          \* mean validation loss, 1..MaxLoss (a cross-entropy is positive)
MaxRuns == 2          \* processes launched over one save directory
TrainBatches == 2     \* len(loader), non-empty
ValBatches == 2       \* len(loader_val), non-empty
MaxPhaseEpochs == 2   \* args.num_epochs of a two-phase run, 1..MaxPhaseEpochs
MaxEpochsSave == 2    \* args.epochs_save ranges over 0..MaxEpochsSave

Models == {"erfnet", "erfnet_isomaxplus", "bisenet", "enet"}
Losses == {"CrossEntropy", "IsoMaxPlus"}

MaxLatest(a, b) == a
Max(a, b) == IF a >= b THEN a ELSE b
Last(s) == s[Len(s)]

----------------------------------------------------------------------------
\* Files.  A file is absent, partially written (opened for writing and not
\* yet closed) or complete with its data.
NoData == [none |-> TRUE]
Absent == [st |-> "absent", data |-> NoData]
Partial == [st |-> "partial", data |-> NoData]
File(d) == [st |-> "ok", data |-> d]
Exists(f) == f.st # "absent"

opts_txt == "opts.txt"
class_weights_npy == "enet_class_weights.npy"
erfnet_class_weights_npy(enc) ==
    IF enc THEN "erfnet_encoder_class_weights.npy" ELSE "erfnet_decoder_class_weights.npy"
automated_log_path(enc) == IF enc THEN "automated_log_encoder.txt" ELSE "automated_log.txt"
modeltxtpath(enc) == IF enc THEN "model_encoder.txt" ELSE "model.txt"
filenameCheckpointShared(enc) == "checkpoint.pth.tar"
filenameCheckpoint(enc) == IF enc THEN "checkpoint_enc.pth.tar" ELSE "checkpoint.pth.tar"
filenameBest(enc) == IF enc THEN "model_best_enc.pth.tar" ELSE "model_best.pth.tar"
filenamebest(enc) == IF enc THEN "model_encoder_best.pth" ELSE "model_best.pth"
best_txt(enc) == IF enc THEN "best_encoder.txt" ELSE "best.txt"

\* Lines 412-417: the numbered snapshot of an epoch, f'...-{epoch:03}.pth'.
Format03(n) ==
    IF n < 10 THEN "00" \o ToString(n)
    ELSE IF n < 100 THEN "0" \o ToString(n) ELSE ToString(n)
filename(enc, epoch) ==
    (IF enc THEN "model_encoder-" ELSE "model-") \o Format03(epoch) \o ".pth"

Paths == {opts_txt, class_weights_npy}
         \cup {erfnet_class_weights_npy(e) : e \in BOOLEAN}
         \cup {automated_log_path(e) : e \in BOOLEAN}
         \cup {modeltxtpath(e) : e \in BOOLEAN}
         \cup {filenameCheckpoint(e) : e \in BOOLEAN}
         \cup {filenameBest(e) : e \in BOOLEAN}
         \cup {filenamebest(e) : e \in BOOLEAN}
         \cup {best_txt(e) : e \in BOOLEAN}
         \cup {filename(e, n) : e \in BOOLEAN, n \in 1..MaxEpochs}

\* The rows of the per-epoch log (the epoch index of each row; the other
\* columns of a row are not modelled).
Rows(f) == IF f.st = "ok" THEN f.data.rows ELSE <<>>

----------------------------------------------------------------------------
\* The locals of train() before line 88 has run.
Unbound == [bound |-> FALSE, steps |-> 0]
\* The weights of a model: the process that built them, the number of
\* optimizer steps its output layer has taken (steps) and the number its
\* other parameters have taken (body).
FreshModel(r) == [run |-> r, steps |-> 0, body |-> 0]
NoMem(r) ==
    [enc |-> FALSE, model |-> FreshModel(r), optimizer |-> Unbound,
     best_acc |-> 0, start_epoch |-> 0, epoch |-> 0, step |-> 0,
     weight |-> "unset", criterion |-> "unset", trainable |-> "unset",
     iouVal |-> 0, loss_val |-> 0, current_acc |-> 0,
     is_best |-> FALSE]

\* The dict handed to save_checkpoint (the arch string and the isomaxplus
\* sub-state are opaque and left out).
CheckpointStateSameEpoch(m, cuda) ==
    [epoch |-> m.epoch, state_dict |-> m.model, wrapped |-> cuda,
     best_acc |-> m.best_acc, optimizer |-> m.optimizer.steps]
CheckpointState(m, cuda) ==
    [epoch |-> m.epoch + 1, state_dict |-> m.model, wrapped |-> cuda,
     best_acc |-> m.best_acc, optimizer |-> m.optimizer.steps]

\* Line 380-383.
CurrentAcc(iouVal, loss) == IF iouVal = 0 THEN 0 - loss ELSE iouVal

\* Line 384.
IsBestGE(current_acc, best_acc) == current_acc >= best_acc
IsBest(current_acc, best_acc) == current_acc > best_acc

\* Lines 243 and 318: the enumerate() over a loader is exhausted after the
\* batch of index len(loader) - 1.
LastBatchEarly(step, n) == step + 1 >= n - 1
LastBatch(step, n) == step + 1 = n

\* Line 223: range(start_epoch, args.num_epochs+1).
InRangeShort(epoch, num_epochs) == epoch < num_epochs
InRange(epoch, num_epochs) == epoch <= num_epochs

----------------------------------------------------------------------------
InitTrain ==
    /\ args \in [model : Models, loss : Losses, num_epochs : 1..MaxEpochs,
                 iouVal : BOOLEAN, cuda : BOOLEAN, resume : {FALSE},
                 decoder : {TRUE}, FineTune : {FALSE},
                 epochs_save : {0}]
    /\ datadir \in BOOLEAN
    /\ \E cw, ew \in BOOLEAN :
          /\ ~ew => (cw /\ args.model = "erfnet")
          /\ disk = [p \in Paths |->
                       IF p = class_weights_npy /\ cw
                       THEN File([weights |-> "cached"])
                       ELSE IF p = erfnet_class_weights_npy(FALSE) /\ ew
                       THEN File([weights |-> "erfnet"])
                       ELSE Absent]
    /\ disk0 = disk
    /\ pc = "off"
    /\ mem = NoMem(0)
    /\ hist = <<>>
    /\ err = ""
    /\ run = 0
    /\ lastExit = [kind |-> "none", epoch |-> 0]

IdleLoad ==
    /\ own_state = <<>>
    /\ state_dict = <<>>
    /\ idx = 0
    /\ report = [skipped |-> {}, mismatched |-> {}]
    /\ lpc = "done"

\* mahalanobis.py is not running.
IdleStats == stats = [pc |-> "off"]

Init == InitTrain /\ IdleLoad /\ IdleStats

Raise(e) == pc' = "error" /\ err' = e

\* The positions inside the body of the epoch loop (lines 224-453).
InEpoch == {"train_batch", "val_batch", "metric", "save_checkpoint",
            "save_checkpoint_w", "save_best", "save_best_w", "snapshot",
            "snapshot_w", "save_model", "save_model_w", "best_txt", "log_row"}

\* A process is started: python main.py ... [--resume], and main() reaches
\* its one call train(args, model, False) (--decoder, or a model that has no
\* encoder phase).  A save directory is trained into once; every later process
\* over it is started with --resume, with or without --cuda.
Launch(resume, cuda) ==
    /\ pc \in {"off", "done", "error"}
    /\ run < MaxRuns
    /\ run > 0 => resume
    /\ run = 0 => cuda = args.cuda
    /\ run' = run + 1
    /\ args' = [args EXCEPT !.resume = resume, !.cuda = cuda]
    /\ lastExit' = IF pc = "off" THEN lastExit
                   ELSE [kind |-> pc, epoch |-> mem.epoch]
    /\ mem' = NoMem(run + 1)
    /\ hist' = <<>>
    /\ err' = ""
    /\ disk0' = disk
    /\ pc' = "main"
    /\ UNCHANGED <<datadir, disk>>

\* The process is terminated from outside, at any point.
Kill ==
    /\ pc \notin {"off", "done", "error"}
    /\ lastExit' = [kind |-> "killed",
                    epoch |-> IF pc \in InEpoch THEN mem.epoch ELSE 0]
    /\ pc' = "off"
    /\ mem' = NoMem(run)
    /\ hist' = <<>>
    /\ UNCHANGED <<args, datadir, disk, disk0, err, run>>

\* main(), lines 464-470: the options file is written first.
MainWriteOpts ==
    /\ pc = "main"
    /\ disk' = [disk EXCEPT ![opts_txt] = File([resume |-> args.resume])]
    /\ pc' = "main_model"
    /\ UNCHANGED <<args, datadir, disk0, mem, hist, err, run, lastExit>>

\* main(), lines 551-556: the erfnet architectures are trained encoder first
\* unless --FineTune or --decoder is given.
EncoderAlways(a) == a.model \in {"erfnet", "erfnet_isomaxplus"}
EncoderFirst(a) ==
    a.model \in {"erfnet", "erfnet_isomaxplus"} /\ ~a.FineTune /\ ~a.decoder

\* main(), lines 472-556 (--state is not given): the model is built, under
\* --FineTune the weights file is loaded into it, which can raise (torch.load
\* on a missing file, copy_ on a shape difference), and train() is called
\* for the first time, with enc=True when the encoder is trained first.
MainModel ==
    /\ pc = "main_model"
    /\ \E loaded \in BOOLEAN :
          IF args.FineTune /\ ~loaded
          THEN /\ Raise("FineTune: loadWeights")
               /\ mem' = mem
          ELSE /\ pc' = "train"
               /\ err' = err
               /\ mem' = [mem EXCEPT !.enc = EncoderFirst(args)]
    /\ UNCHANGED <<args, datadir, disk, disk0, hist, run, lastExit>>

\* train(), lines 88-90.
TrainEntry ==
    /\ pc = "train"
    /\ mem' = [mem EXCEPT !.best_acc = 0]
    /\ IF datadir THEN pc' = "class_weights" /\ err' = err
                  ELSE Raise("AssertionError: datadir")
    /\ UNCHANGED <<args, datadir, disk, disk0, hist, run, lastExit>>

\* Lines 114-121: the file the class weights are read from when line 110
\* finds its cache; bisenet and erfnet_isomaxplus get weight = None.
WeightFile(model, enc) ==
    IF model = "enet" THEN class_weights_npy
    ELSE IF model = "erfnet" THEN erfnet_class_weights_npy(enc)
    ELSE "None"

\* train(), lines 110-129.  mem.weight names where the class weights come
\* from: the dataset pass of line 111 ("computed"), a file, or "None".
\* np.load raises on a missing file.
ClassWeights ==
    /\ pc = "class_weights"
    /\ IF ~Exists(disk[class_weights_npy])
       THEN /\ disk' = [disk EXCEPT ![class_weights_npy] = File([weights |-> "computed"])]
            /\ mem' = [mem EXCEPT !.weight = "computed"]
            /\ pc' = "criterion" /\ err' = err
       ELSE LET f == WeightFile(args.model, mem.enc) IN
            /\ disk' = disk
            /\ IF f # "None" /\ ~Exists(disk[f])
               THEN /\ Raise("FileNotFoundError: class weights")
                    /\ mem' = mem
               ELSE /\ mem' = [mem EXCEPT !.weight = f]
                    /\ pc' = "criterion" /\ err' = err
    /\ UNCHANGED <<args, datadir, disk0, hist, run, lastExit>>

\* Lines 132-153: the loss and the class weights it is built with
\* (--loss Focal and --logit_normalization are not given).
CriterionOf(model, weight) ==
    IF model = "erfnet_isomaxplus"
    THEN [loss |-> "IsoMaxPlusLossSecondPart", weight |-> "None"]
    ELSE IF model = "bisenet" THEN [loss |-> "OhemCELoss", weight |-> "None"]
    ELSE [loss |-> "CrossEntropyLoss2d", weight |-> weight]

\* train(), lines 131-153.
Criterion ==
    /\ pc = "criterion"
    /\ IF args.model = "erfnet" /\ args.loss = "IsoMaxPlus"
       THEN /\ Raise("ValueError: IsoMaxPlus")
            /\ mem' = mem
       ELSE /\ pc' = "log_header" /\ err' = err
            /\ mem' = [mem EXCEPT !.criterion = CriterionOf(args.model, mem.weight)]
    /\ UNCHANGED <<args, datadir, disk, disk0, hist, run, lastExit>>

\* train(), lines 164-166.
LogHeader ==
    /\ pc = "log_header"
    /\ disk' = IF Exists(disk[automated_log_path(mem.enc)]) THEN disk
               ELSE [disk EXCEPT ![automated_log_path(mem.enc)] = File([rows |-> <<>>])]
    /\ pc' = "model_txt"
    /\ UNCHANGED <<args, datadir, disk0, mem, hist, err, run, lastExit>>

\* train(), lines 168-169.
ModelTxt ==
    /\ pc = "model_txt"
    /\ disk' = [disk EXCEPT ![modeltxtpath(mem.enc)] = File([model |-> args.model])]
    /\ pc' = "resume"
    /\ UNCHANGED <<args, datadir, disk0, mem, hist, err, run, lastExit>>

\* train(), lines 171-187.  The checkpoint's names are stripped of "module."
\* and loaded strictly into the model, whose names carry "module." when main()
\* wrapped it (args.cuda, line 527-528); then `optimizer`, a local of train()
\* first assigned on line 206, is read on line 185.
Resume ==
    /\ pc = "resume"
    /\ LET f == disk[filenameCheckpoint(mem.enc)] IN
       IF ~args.resume
       THEN /\ mem' = [mem EXCEPT !.start_epoch = 1]
            /\ pc' = "optimizer" /\ err' = err
       ELSE IF ~Exists(f)
       THEN /\ mem' = [mem EXCEPT !.start_epoch = 1]
            /\ Raise("AssertionError: checkpoint")
       ELSE IF f.st = "partial"
       THEN /\ mem' = [mem EXCEPT !.start_epoch = 1]
            /\ Raise("torch.load")
       ELSE IF args.cuda
       THEN /\ mem' = [mem EXCEPT !.start_epoch = f.data.epoch]
            /\ Raise("RuntimeError: load_state_dict")
       ELSE IF ~mem.optimizer.bound
       THEN /\ mem' = [mem EXCEPT !.start_epoch = f.data.epoch,
                                  !.model = f.data.state_dict]
            /\ Raise("UnboundLocalError: optimizer")
       ELSE /\ mem' = [mem EXCEPT !.start_epoch = f.data.epoch,
                                  !.model = f.data.state_dict,
                                  !.optimizer = [bound |-> TRUE, steps |-> f.data.optimizer],
                                  !.best_acc = f.data.best_acc]
            /\ pc' = "optimizer" /\ err' = err
    /\ UNCHANGED <<args, datadir, disk, disk0, hist, run, lastExit>>

\* Lines 189-202: the parameters with requires_grad = True at the optimizer
\* steps, all of them unless --FineTune leaves only the output layer's.
Trainable(FineTune) == IF FineTune THEN "output" ELSE "all"

\* Line 271, optimizer.step(): one more update of the trainable parameters.
StepTwice(n) == n + 2
Step(n) == n + 1

\* train(), lines 189-223: under --FineTune the output layer is reached
\* through model.module (lines 195-201), which only the DataParallel wrapper
\* of line 528 (args.cuda) has; a new optimizer is constructed, and the epoch
\* loop starts at start_epoch.
Optimizer ==
    /\ pc = "optimizer"
    /\ IF args.FineTune /\ ~args.cuda
       THEN /\ Raise("AttributeError: module")
            /\ mem' = mem
       ELSE /\ mem' = [mem EXCEPT !.optimizer = [bound |-> TRUE, steps |-> 0],
                                  !.trainable = Trainable(args.FineTune),
                                  !.epoch = mem.start_epoch]
            /\ pc' = "epoch"
            /\ err' = err
    /\ UNCHANGED <<args, datadir, disk, disk0, hist, run, lastExit>>

\* train(), lines 223-242 and 455: the loop test, and the return, to line
\* 557 of main() from the encoder's train() and to line 578 from the last.
EpochBegin ==
    /\ pc = "epoch"
    /\ IF InRange(mem.epoch, args.num_epochs)
       THEN pc' = "train_batch" /\ mem' = [mem EXCEPT !.step = 0]
       ELSE pc' = (IF mem.enc THEN "decoder_training" ELSE "done") /\ mem' = mem
    /\ UNCHANGED <<args, datadir, disk, disk0, hist, err, run, lastExit>>

\* train(), lines 243-273: one batch, one optimizer step.  mem.step is the
\* index of the batch being processed, as `step` of the enumerate().
TrainBatch ==
    /\ pc = "train_batch"
    /\ mem' = [mem EXCEPT !.model.steps = Step(@),
                          !.model.body = IF mem.trainable = "all" THEN Step(@) ELSE @,
                          !.optimizer.steps = Step(@),
                          !.step = IF LastBatch(mem.step, TrainBatches) THEN 0 ELSE @ + 1]
    /\ pc' = IF LastBatch(mem.step, TrainBatches) THEN "val_batch" ELSE "train_batch"
    /\ UNCHANGED <<args, datadir, disk, disk0, hist, err, run, lastExit>>

\* train(), lines 318-349: one validation batch.
ValBatch ==
    /\ pc = "val_batch"
    /\ mem' = [mem EXCEPT !.step = IF LastBatch(mem.step, ValBatches) THEN @ ELSE @ + 1]
    /\ pc' = IF LastBatch(mem.step, ValBatches) THEN "metric" ELSE "val_batch"
    /\ UNCHANGED <<args, datadir, disk, disk0, hist, err, run, lastExit>>

\* train(), lines 370-385.
EpochMetric ==
    /\ pc = "metric"
    /\ \E loss \in 1..MaxLoss :
       \E iou \in IF args.iouVal THEN 0..MaxIoU ELSE {0} :
          LET current_acc == CurrentAcc(iou, loss) IN
          /\ mem' = [mem EXCEPT !.iouVal = iou, !.loss_val = loss,
                                !.current_acc = current_acc,
                                !.is_best = IsBest(current_acc, mem.best_acc),
                                !.best_acc = Max(current_acc, mem.best_acc)]
          /\ hist' = Append(hist, [epoch |-> mem.epoch, iou |-> iou,
                                   acc |-> current_acc, best_before |-> mem.best_acc,
                                   model |-> mem.model])
    /\ pc' = "save_checkpoint"
    /\ UNCHANGED <<args, datadir, disk, disk0, err, run, lastExit>>

\* Lines 393-410: the state to save is built; for erfnet_isomaxplus it reads
\* model.module (line 399), which only the DataParallel wrapper of line 528
\* (args.cuda) has.  save_checkpoint, line 458: torch.save opens the
\* destination for writing ...
SaveCheckpointOpen ==
    /\ pc = "save_checkpoint"
    /\ IF args.model = "erfnet_isomaxplus" /\ ~args.cuda
       THEN /\ Raise("AttributeError: module")
            /\ disk' = disk
       ELSE /\ disk' = [disk EXCEPT ![filenameCheckpoint(mem.enc)] = Partial]
            /\ pc' = "save_checkpoint_w"
            /\ err' = err
    /\ UNCHANGED <<args, datadir, disk0, mem, hist, run, lastExit>>

\* ... and writes the state into it.  Line 459: is_best.
SaveCheckpointWrite ==
    /\ pc = "save_checkpoint_w"
    /\ disk' = [disk EXCEPT ![filenameCheckpoint(mem.enc)] =
                               File(CheckpointState(mem, args.cuda))]
    /\ pc' = IF mem.is_best THEN "save_best" ELSE "snapshot"
    /\ UNCHANGED <<args, datadir, disk0, mem, hist, err, run, lastExit>>

\* save_checkpoint, line 461.
SaveBestOpen ==
    /\ pc = "save_best"
    /\ disk' = [disk EXCEPT ![filenameBest(mem.enc)] = Partial]
    /\ pc' = "save_best_w"
    /\ UNCHANGED <<args, datadir, disk0, mem, hist, err, run, lastExit>>

SaveBestWrite ==
    /\ pc = "save_best_w"
    /\ disk' = [disk EXCEPT ![filenameBest(mem.enc)] =
                               File(CheckpointState(mem, args.cuda))]
    /\ pc' = "snapshot"
    /\ UNCHANGED <<args, datadir, disk0, mem, hist, err, run, lastExit>>

\* Line 428: the test of the numbered snapshot.  `step` is the variable of
\* the enumerate() of line 318, which the validation loop leaves at the
\* index of its last batch.
SnapshotDue(epochs_save, step) ==
    epochs_save > 0 /\ step > 0 /\ step % epochs_save = 0

\* train(), lines 412-433: the numbered snapshot.  save_model, line 426:
\* torch.save opens the destination for writing ...
SaveSnapshotOpen ==
    /\ pc = "snapshot"
    /\ IF SnapshotDue(args.epochs_save, mem.step)
       THEN /\ disk' = [disk EXCEPT ![filename(mem.enc, mem.epoch)] = Partial]
            /\ pc' = "snapshot_w"
       ELSE /\ disk' = disk
            /\ pc' = "save_model"
    /\ UNCHANGED <<args, datadir, disk0, mem, hist, err, run, lastExit>>

\* ... and writes the state into it.
SaveSnapshotWrite ==
    /\ pc = "snapshot_w"
    /\ disk' = [disk EXCEPT ![filename(mem.enc, mem.epoch)] =
                               File([state_dict |-> mem.model])]
    /\ pc' = "save_model"
    /\ UNCHANGED <<args, datadir, disk0, mem, hist, err, run, lastExit>>

\* train(), lines 435-441: the best model file, written by torch.save like
\* the checkpoints.
SaveBestModelOpen ==
    /\ pc = "save_model"
    /\ IF mem.is_best
       THEN /\ disk' = [disk EXCEPT ![filenamebest(mem.enc)] = Partial]
            /\ pc' = "save_model_w"
       ELSE /\ disk' = disk
            /\ pc' = "log_row"
    /\ UNCHANGED <<args, datadir, disk0, mem, hist, err, run, lastExit>>

SaveBestModelWrite ==
    /\ pc = "save_model_w"
    /\ disk' = [disk EXCEPT ![filenamebest(mem.enc)] = File([state_dict |-> mem.model])]
    /\ pc' = "best_txt"
    /\ UNCHANGED <<args, datadir, disk0, mem, hist, err, run, lastExit>>

\* train(), lines 442-447: the best marker.
BestMarker ==
    /\ pc = "best_txt"
    /\ disk' = [disk EXCEPT ![best_txt(mem.enc)] =
                               File([epoch |-> mem.epoch, iouVal |-> mem.iouVal])]
    /\ pc' = "log_row"
    /\ UNCHANGED <<args, datadir, disk0, mem, hist, err, run, lastExit>>

\* train(), lines 452-453, and the loop's increment.
LogRow ==
    /\ pc = "log_row"
    /\ LET p == automated_log_path(mem.enc) IN
       disk' = [disk EXCEPT ![p] = File([rows |-> Append(Rows(disk[p]), mem.epoch)])]
    /\ mem' = [mem EXCEPT !.epoch = @ + 1]
    /\ pc' = "epoch"
    /\ UNCHANGED <<args, datadir, disk0, hist, err, run, lastExit>>

\* main(), lines 557-575 (--state is not given): the joint model is built
\* around the encoder just trained, or around the one loaded from
\* --pretrainedEncoder, and train() is called with enc=False.
DecoderTraining ==
    /\ pc = "decoder_training"
    /\ \E pretrainedEncoder \in BOOLEAN :
          mem' = [NoMem(run) EXCEPT
                    !.model = IF pretrainedEncoder THEN FreshModel(run) ELSE mem.model]
    /\ hist' = <<>>
    /\ pc' = "train"
    /\ UNCHANGED <<args, datadir, disk, disk0, err, run, lastExit>>

TrainStep ==
    \/ MainWriteOpts \/ MainModel \/ TrainEntry \/ ClassWeights \/ Criterion \/ LogHeader
    \/ ModelTxt \/ Resume \/ Optimizer \/ EpochBegin \/ TrainBatch \/ ValBatch
    \/ EpochMetric \/ SaveCheckpointOpen \/ SaveCheckpointWrite \/ SaveBestOpen
    \/ SaveBestWrite \/ SaveSnapshotOpen \/ SaveBestModelOpen \/ SaveBestModelWrite \/ BestMarker
    \/ LogRow

Next ==
    \/ (\E r, c \in BOOLEAN : Launch(r, c)) /\ UNCHANGED <<loadVars, stats>>
    \/ Kill /\ UNCHANGED <<loadVars, stats>>
    \/ TrainStep /\ UNCHANGED <<loadVars, stats>>

Spec == Init /\ [][Next]_vars

\* An empty save directory, next to the class-weight files of erfnet
\* (lines 116 and 119), without the cache of line 110.
EmptySaveDir ==
    [p \in Paths |->
        IF p \in {erfnet_class_weights_npy(e) : e \in BOOLEAN}
        THEN File([weights |-> "erfnet"]) ELSE Absent]

\* main() for the erfnet architectures, with and without --decoder and
\* --FineTune, over an empty save directory.
InitMain ==
    /\ args \in [model : {"erfnet", "erfnet_isomaxplus"}, loss : {"CrossEntropy"},
                 num_epochs : 1..MaxPhaseEpochs, iouVal : {TRUE}, cuda : BOOLEAN,
                 resume : {FALSE}, decoder : BOOLEAN, FineTune : BOOLEAN,
                 epochs_save : {0}]
    /\ datadir = TRUE
    /\ disk = EmptySaveDir
    /\ disk0 = disk
    /\ pc = "off"
    /\ mem = NoMem(0)
    /\ hist = <<>>
    /\ err = ""
    /\ run = 0
    /\ lastExit = [kind |-> "none", epoch |-> 0]

MainInit == InitMain /\ IdleLoad /\ IdleStats

NextMain ==
    \/ (\E r, c \in BOOLEAN : Launch(r, c)) /\ UNCHANGED <<loadVars, stats>>
    \/ Kill /\ UNCHANGED <<loadVars, stats>>
    \/ TrainStep /\ UNCHANGED <<loadVars, stats>>
    \/ DecoderTraining /\ UNCHANGED <<loadVars, stats>>

SpecMain == MainInit /\ [][NextMain]_vars

\* main() for erfnet with --epochs-save, with and without --decoder, over
\* an empty save directory.
InitSnapshot ==
    /\ args \in [model : {"erfnet"}, loss : {"CrossEntropy"},
                 num_epochs : 1..MaxPhaseEpochs, iouVal : {TRUE}, cuda : {FALSE},
                 resume : {FALSE}, decoder : BOOLEAN, FineTune : {FALSE},
                 epochs_save : 0..MaxEpochsSave]
    /\ datadir = TRUE
    /\ disk = EmptySaveDir
    /\ disk0 = disk
    /\ pc = "off"
    /\ mem = NoMem(0)
    /\ hist = <<>>
    /\ err = ""
    /\ run = 0
    /\ lastExit = [kind |-> "none", epoch |-> 0]

SnapshotInit == InitSnapshot /\ IdleLoad /\ IdleStats

\* One process is started over the directory, without --resume.
NextSnapshot ==
    \/ Launch(FALSE, args.cuda) /\ UNCHANGED <<loadVars, stats>>
    \/ Kill /\ UNCHANGED <<loadVars, stats>>
    \/ TrainStep /\ UNCHANGED <<loadVars, stats>>
    \/ DecoderTraining /\ UNCHANGED <<loadVars, stats>>
    \/ SaveSnapshotWrite /\ UNCHANGED <<loadVars, stats>>

SpecSnapshot == SnapshotInit /\ [][NextSnapshot]_vars

----------------------------------------------------------------------------
\* Properties of the training process (checked under Spec).

RollingAtLaunch == disk0[filenameCheckpoint(FALSE)]
LogRows == Rows(disk[automated_log_path(FALSE)])
LogRowsAtLaunch == Rows(disk0[automated_log_path(FALSE)])
UpTo(n) == [i \in 1..n |-> i]
BeforeResume == {"off", "main", "main_model", "train", "class_weights", "criterion",
                 "log_header", "model_txt", "resume"}
ConfigErrors == {"AssertionError: datadir", "ValueError: IsoMaxPlus",
                 "AssertionError: checkpoint"}

\* C1: a process resumed from the complete rolling checkpoint written at the
\* end of epoch K, over a log holding rows 1..K, with one more epoch to run
\* (num_epochs = K+1), ends with the log holding exactly the rows 1..K+1.
C1_ResumeAppendsNextEpoch ==
    ( /\ pc \in {"done", "error"}
      /\ args.resume
      /\ RollingAtLaunch.st = "ok"
      /\ RollingAtLaunch.data.epoch = args.num_epochs
      /\ LogRowsAtLaunch = UpTo(args.num_epochs - 1) )
    => LogRows = UpTo(args.num_epochs)

\* C2: a process started with --resume over an existing rolling checkpoint
\* gets past the resume step without an error, and enters its first epoch
\* with the model weights, the optimizer state and the best metric stored in
\* that checkpoint.
C2_ResumeRestoresState ==
    ( /\ args.resume
      /\ RollingAtLaunch.st = "ok"
      /\ pc \notin BeforeResume )
    => /\ pc # "error"
       /\ (pc = "epoch" /\ hist = <<>>)
            => /\ mem.model = RollingAtLaunch.data.state_dict
               /\ mem.optimizer.steps = RollingAtLaunch.data.optimizer
               /\ mem.best_acc = RollingAtLaunch.data.best_acc

\* The epoch whose metric is the last one computed beat the best metric
\* stored before it.
Better ==
    /\ hist # <<>>
    /\ Last(hist).epoch = mem.epoch
    /\ Last(hist).acc > Last(hist).best_before

\* C3: the best checkpoint and the best model file change only in an epoch
\* whose metric is strictly greater than the best metric stored before the
\* epoch, and such an epoch ends with both holding that epoch's state; an
\* epoch whose metric equals the stored best leaves them as they were.
C3_BestOverwrittenIffStrictlyGreater ==
    [][ /\ ( \/ disk'[filenameBest(FALSE)] # disk[filenameBest(FALSE)]
             \/ disk'[filenamebest(FALSE)] # disk[filenamebest(FALSE)] ) => Better
        /\ (pc = "log_row" /\ pc' = "epoch" /\ Better)
             => /\ disk[filenameBest(FALSE)] = File(CheckpointState(mem, args.cuda))
                /\ disk[filenamebest(FALSE)] = File([state_dict |-> mem.model])
      ]_vars

\* An epoch tied with a positive stored best has finished its saves and the
\* best checkpoint is still the one of an earlier epoch.
C3_Witness ==
    /\ pc = "log_row"
    /\ Last(hist).acc = Last(hist).best_before
    /\ Last(hist).best_before > 0
    /\ disk[filenameBest(FALSE)].st = "ok"
    /\ disk[filenameBest(FALSE)].data.epoch < mem.epoch + 1
    /\ disk[filenameCheckpoint(FALSE)].data.epoch = mem.epoch + 1

\* The earliest epoch of the run with the highest validation IoU.
EarliestBest(h) ==
    CHOOSE i \in 1..Len(h) :
        /\ \A j \in 1..Len(h) : h[j].iou <= h[i].iou
        /\ \A j \in 1..(i - 1) : h[j].iou < h[i].iou

\* C4: when a fresh run with IoU evaluation has returned, the best checkpoint
\* exists and holds the state of the earliest epoch with the highest
\* validation IoU.
C4_BestCheckpointIsEarliestMaxIoU ==
    (pc = "done" /\ ~args.resume /\ args.iouVal)
    => LET e == EarliestBest(hist)
           f == disk[filenameBest(FALSE)]
       IN /\ f.st = "ok"
          /\ f.data.epoch = hist[e].epoch + 1
          /\ f.data.state_dict = hist[e].model

\* C5: the metric compared against the stored best is the validation IoU when
\* IoU evaluation is enabled (also when that IoU is 0), and the negated mean
\* validation loss when it is disabled.
C5_MetricIsIoUWhenEnabled ==
    pc = "save_checkpoint"
    => mem.current_acc = IF args.iouVal THEN mem.iouVal ELSE 0 - mem.loss_val

\* C6: a fresh run appends one row per epoch, in increasing order: while it
\* runs the appended rows are 1..(epochs finished), and when it has returned
\* they are exactly 1..num_epochs.
C6_FreshRunAppendsEpochRows ==
    (~args.resume /\ run > 0 /\ pc \notin BeforeResume /\ pc # "error")
    => /\ pc = "done" => LogRows = LogRowsAtLaunch \o UpTo(args.num_epochs)
       /\ pc # "done" => LogRows = LogRowsAtLaunch \o UpTo(mem.epoch - 1)

C6_Witness ==
    /\ pc = "done"
    /\ ~args.resume
    /\ args.num_epochs = MaxEpochs
    /\ LogRows = UpTo(MaxEpochs)

\* C7: a process killed while epoch N >= 2 was in progress and started again
\* with --resume gets past the resume step and continues at epoch N.
C7_KilledEpochIsResumed ==
    ( /\ args.resume
      /\ lastExit.kind = "killed"
      /\ lastExit.epoch >= 2
      /\ pc \notin BeforeResume )
    => /\ pc # "error"
       /\ mem.start_epoch = lastExit.epoch

\* C8: whenever the process has been interrupted, the rolling checkpoint and
\* the best checkpoint are each absent or complete, never partially written.
C8_NoPartialCheckpoint ==
    pc = "off"
    => \A enc \in BOOLEAN :
          /\ disk[filenameCheckpoint(enc)].st # "partial"
          /\ disk[filenameBest(enc)].st # "partial"

\* C9: a process that ends on a configuration error has executed no epoch and
\* has left every file as it was when the process was launched.
C9_ConfigErrorWritesNothing ==
    (pc = "error" /\ err \in ConfigErrors)
    => /\ hist = <<>>
       /\ disk = disk0

\* The rolling checkpoint of the running phase, and the positions of an
\* epoch after the rolling checkpoint has been written.
Rolling == disk[filenameCheckpoint(mem.enc)]
AfterRolling == {"save_best", "save_best_w", "snapshot", "snapshot_w",
                 "save_model", "save_model_w",
                 "best_txt", "log_row"}

\* C17: the rolling checkpoint changes only in the save that follows the
\* last training batch and the last validation batch of the epoch (all
\* optimizer steps of the epochs so far are done, the validation loop has
\* reached its last batch, the epoch's metric is computed); it is opened once
\* per epoch, while it does not yet hold this epoch's state; and whatever
\* the metric is, an epoch is past that save, and ends, only with the rolling
\* checkpoint holding its state.
C17_RollingWrittenOncePerEpochAfterBatches ==
    [][ /\ (disk'[filenameCheckpoint(mem.enc)] # Rolling)
           => /\ pc \in {"save_checkpoint", "save_checkpoint_w"}
              /\ mem.model.steps = (mem.epoch - mem.start_epoch + 1) * TrainBatches
              /\ mem.step = ValBatches - 1
              /\ Last(hist).epoch = mem.epoch
              /\ IF pc = "save_checkpoint"
                 THEN /\ disk'[filenameCheckpoint(mem.enc)] = Partial
                      /\ Rolling # File(CheckpointState(mem, args.cuda))
                 ELSE /\ Rolling = Partial
                      /\ disk'[filenameCheckpoint(mem.enc)]
                           = File(CheckpointState(mem, args.cuda))
        /\ (pc \in InEpoch /\ pc \notin AfterRolling /\ pc # "save_checkpoint_w"
              /\ Rolling.st = "ok")
           => Rolling.data.epoch # CheckpointState(mem, args.cuda).epoch
        /\ (pc \in AfterRolling)
           => Rolling = File(CheckpointState(mem, args.cuda))
      ]_vars

\* The last epoch of a run over several epochs is past its save, its metric
\* not being a new best.
C17_Witness ==
    /\ pc = "log_row"
    /\ mem.epoch = MaxEpochs
    /\ ~mem.is_best
    /\ Rolling = File(CheckpointState(mem, args.cuda))
    /\ mem.model.steps = MaxEpochs * TrainBatches
    /\ mem.step = ValBatches - 1

\* The process was started with --resume and has loaded the rolling
\* checkpoint (line 179).
ResumedFromRolling ==
    /\ args.resume
    /\ RollingAtLaunch.st = "ok"
    /\ pc \notin BeforeResume

\* C18 as stated: the rolling checkpoint written in epoch N records the epoch
\* index N, and a resumed process takes the recorded index plus one as the
\* first index of its epoch loop.
C18_CheckpointRecordsEpochN ==
    /\ pc \in AfterRolling => Rolling.data.epoch = mem.epoch
    /\ ResumedFromRolling => mem.start_epoch = RollingAtLaunch.data.epoch + 1

\* C18 as amended: the rolling checkpoint written in epoch N records N + 1,
\* and a resumed process takes the recorded index itself as the first index
\* of its epoch loop.
C18_CheckpointRecordsNextEpoch ==
    /\ pc \in AfterRolling => Rolling.data.epoch = mem.epoch + 1
    /\ ResumedFromRolling => mem.start_epoch = RollingAtLaunch.data.epoch

\* A process resumed from the checkpoint written in epoch 2.
C18_Witness ==
    /\ ResumedFromRolling
    /\ RollingAtLaunch.data.epoch = 3
    /\ Rows(disk0[automated_log_path(FALSE)]) = <<1, 2>>
    /\ mem.start_epoch = 3

\* C19: a process resumed from a rolling checkpoint whose names differ from
\* the names of its model by the "module." prefix (the checkpoint was written
\* from a wrapped model and the model is not wrapped, or the reverse) gets
\* past the resume step without an error.
C19_ResumeReconcilesNames ==
    (ResumedFromRolling /\ RollingAtLaunch.data.wrapped # args.cuda)
    => pc # "error"

----------------------------------------------------------------------------
\* Properties of main()'s phases (checked under SpecMain).

\* The positions inside a call of train().
InTrain == {"train", "class_weights", "criterion", "log_header", "model_txt",
            "resume", "optimizer", "epoch"} \cup InEpoch
EncoderRows == Rows(disk[automated_log_path(TRUE)])
EncoderRowsAtLaunch == Rows(disk0[automated_log_path(TRUE)])

\* C14: for the erfnet architectures, (1) without --FineTune and --decoder
\* the joint model is built and the decoder/joint train() is entered only
\* when the encoder-only loop has completed every one of its epochs; (2) with
\* --FineTune or --decoder no encoder-only train() is entered and no
\* encoder-only epoch is logged; (3) the decoder/joint train() is the last
\* one of the process, and main() gets past it only with that loop having run
\* its epochs once, after the encoder's.
C14_EncoderLoopPrecedesDecoderLoop ==
    [][ /\ (pc = "decoder_training" \/ (pc \in InTrain /\ ~mem.enc
                                        /\ ~args.FineTune /\ ~args.decoder))
           => EncoderRows = EncoderRowsAtLaunch \o UpTo(args.num_epochs)
        /\ (args.FineTune \/ args.decoder)
           => /\ ~mem.enc
              /\ pc # "decoder_training"
              /\ (pc # "off" /\ pc' # "main") => EncoderRows = EncoderRowsAtLaunch
        /\ (pc \in InTrain /\ ~mem.enc) => ~mem'.enc
        /\ pc = "done"
           => /\ ~mem.enc
              /\ LogRows = LogRowsAtLaunch \o UpTo(args.num_epochs)
      ]_vars

\* main() is past both loops of MaxPhaseEpochs epochs each.
C14_Witness ==
    /\ pc = "done"
    /\ ~args.FineTune /\ ~args.decoder
    /\ args.num_epochs = MaxPhaseEpochs
    /\ EncoderRows = UpTo(MaxPhaseEpochs)
    /\ LogRows = UpTo(MaxPhaseEpochs)

----------------------------------------------------------------------------
\* load_my_state_dict (main(), lines 492-519).  A parameter name is the
\* sequence of its dot-separated segments; a tensor is the sequence of its
\* rows along dimension 0 (the other dimensions agree); a row is tagged with
\* where its value comes from.
MaxRows == 2          \* size(0) of a tensor ranges over 1..MaxRows

LoadNames == { <<"layer">>, <<"module", "layer">>,
               <<"conv_out", "conv_out">>, <<"decoder", "output_conv">> }

InitVal == [src |-> <<"init">>, row |-> 0]
Zero == [src |-> <<"zeros">>, row |-> 0]
SrcVal(name, i) == [src |-> name, row |-> i]
Param(name, rows) == [i \in 1..rows |-> SrcVal(name, i)]
InitTensor(rows) == [i \in 1..rows |-> InitVal]

\* Line 498: name.startswith("module.").
StartsWithModule(name) == Len(name) >= 2 /\ name[1] = "module"

\* Line 499: name.split("module.")[-1], what follows the last "module.".
StrippedName(name) ==
    LET cut == {i \in 1..(Len(name) - 1) : name[i] = "module"}
        last == CHOOSE i \in cut : \A j \in cut : j <= i
    IN IF cut = {} THEN name ELSE SubSeq(name, last + 1, Len(name))

\* Line 513.
IsConvOut(name) ==
    \E i \in 1..(Len(name) - 1) :
        name[i] \in {"conv_out", "conv_out16", "conv_out32"} /\ name[i + 1] = "conv_out"

\* Tensor.copy_(src): src is broadcast to the shape of self, or the call raises.
CanCopy(own, param) == Len(param) = Len(own) \/ Len(param) = 1
Copy(own, param) ==
    IF Len(param) = Len(own) THEN param ELSE [i \in 1..Len(own) |-> param[1]]

\* Lines 514-515: new_param = zeros_like(own); new_param[:param.size(0)] = param.
CanPad(own, param) == Len(param) <= Len(own)
PadRowsShort(own, param) ==
    [i \in 1..Len(own) |-> IF i <= Len(param) - 1 THEN param[i] ELSE Zero]
PadRows(own, param) ==
    [i \in 1..Len(own) |-> IF i <= Len(param) THEN param[i] ELSE Zero]

InitLoad ==
    /\ \E T \in SUBSET LoadNames : \E shape \in [T -> 1..MaxRows] :
          own_state = [n \in T |-> InitTensor(shape[n])]
    /\ state_dict = <<>>
    /\ idx = 0
    /\ report = [skipped |-> {}, mismatched |-> {}]
    /\ lpc = "loop"

\* One iteration of the loop of line 496 over the next item of state_dict.
LoadItem(name, rows) ==
    LET param == Param(name, rows)
        stripped_name == StrippedName(name)
    IN
    /\ lpc = "loop"
    /\ \A i \in 1..Len(state_dict) : state_dict[i].name # name
    /\ state_dict' = Append(state_dict, [name |-> name, param |-> param])
    /\ idx' = idx + 1
    /\ IF name \notin DOMAIN own_state
       THEN IF StartsWithModule(name)
            THEN IF stripped_name \notin DOMAIN own_state
                 THEN /\ report' = [report EXCEPT !.skipped = @ \cup {name}]
                      /\ UNCHANGED <<own_state, lpc>>
                 ELSE IF Len(own_state[stripped_name]) # Len(param)
                 THEN /\ report' = [report EXCEPT !.mismatched = @ \cup {stripped_name}]
                      /\ UNCHANGED <<own_state, lpc>>
                 ELSE /\ own_state' = [own_state EXCEPT ![stripped_name] = Copy(@, param)]
                      /\ UNCHANGED <<report, lpc>>
            ELSE /\ report' = [report EXCEPT !.skipped = @ \cup {name}]
                 /\ UNCHANGED <<own_state, lpc>>
       ELSE /\ report' = IF Len(own_state[name]) # Len(param)
                         THEN [report EXCEPT !.mismatched = @ \cup {name}]
                         ELSE report
            /\ IF IsConvOut(name)
               THEN IF CanPad(own_state[name], param)
                    THEN /\ own_state' = [own_state EXCEPT ![name] = PadRows(@, param)]
                         /\ lpc' = lpc
                    ELSE /\ lpc' = "raised"
                         /\ own_state' = own_state
               ELSE IF CanCopy(own_state[name], param)
                    THEN /\ own_state' = [own_state EXCEPT ![name] = Copy(@, param)]
                         /\ lpc' = lpc
                    ELSE /\ lpc' = "raised"
                         /\ own_state' = own_state

\* Line 519: state_dict is exhausted.
LoadReturn ==
    /\ lpc = "loop"
    /\ lpc' = "done"
    /\ UNCHANGED <<own_state, state_dict, idx, report>>

\* The training process does not exist yet while main() loads the weights.
TrainIdle ==
    /\ args = [model |-> "bisenet", loss |-> "CrossEntropy", num_epochs |-> 1,
               iouVal |-> TRUE, cuda |-> TRUE, resume |-> FALSE,
               decoder |-> TRUE, FineTune |-> FALSE, epochs_save |-> 0]
    /\ datadir = TRUE
    /\ disk = [p \in Paths |-> Absent]
    /\ disk0 = disk
    /\ pc = "off"
    /\ mem = NoMem(0)
    /\ hist = <<>>
    /\ err = ""
    /\ run = 0
    /\ lastExit = [kind |-> "none", epoch |-> 0]

NextLoad ==
    \/ (\E name \in LoadNames : \E rows \in 1..MaxRows : LoadItem(name, rows))
          /\ UNCHANGED <<trainVars, stats>>
    \/ LoadReturn /\ UNCHANGED <<trainVars, stats>>

LoadInit == TrainIdle /\ InitLoad /\ IdleStats

SpecLoad == LoadInit /\ [][NextLoad]_vars

----------------------------------------------------------------------------
\* Properties of load_my_state_dict (checked under SpecLoad).

SourceNames == {state_dict[i].name : i \in 1..Len(state_dict)}
SameShapes ==
    \A i \in 1..Len(state_dict) :
        state_dict[i].name \in DOMAIN own_state
        => Len(state_dict[i].param) = Len(own_state[state_dict[i].name])
LoadedExactly ==
    /\ report.skipped = {}
    /\ report.mismatched = {}
    /\ \A i \in 1..Len(state_dict) :
          own_state[state_dict[i].name] = state_dict[i].param

\* C10 as stated: for a source whose names are exactly the target's names the
\* loader returns, prints no name as skipped or mismatched, and leaves every
\* target parameter equal to the source value of its name.
C10_IdenticalNamesLoadExactly ==
    /\ (lpc = "done" /\ SourceNames = DOMAIN own_state) => LoadedExactly
    /\ (SourceNames \subseteq DOMAIN own_state) => lpc # "raised"

\* C10 as amended: the same, for a source whose names are exactly the target's
\* names and whose tensors have the shapes of the target's.
C10_IdenticalNamesAndShapesLoadExactly ==
    /\ (lpc = "done" /\ SourceNames = DOMAIN own_state /\ SameShapes) => LoadedExactly
    /\ (SourceNames \subseteq DOMAIN own_state /\ SameShapes) => lpc # "raised"

C10_Witness ==
    /\ lpc = "done"
    /\ SourceNames = DOMAIN own_state
    /\ SameShapes
    /\ <<"conv_out", "conv_out">> \in SourceNames
    /\ <<"layer">> \in SourceNames
    /\ \A n \in SourceNames : Len(own_state[n]) = MaxRows
    /\ LoadedExactly

\* train(), lines 194-202: the output layer of each architecture, as the
\* fine-tune freeze names it (erfnet: decoder.output_conv, bisenet: conv_out,
\* enet: transposed_conv).
IsOutputLayer(name) ==
    \/ \E i \in 1..(Len(name) - 1) : name[i] = "decoder" /\ name[i + 1] = "output_conv"
    \/ \E i \in 1..Len(name) : name[i] \in {"conv_out", "transposed_conv"}

\* The name without its leading "module." segment.
WithoutPrefix(name) == IF StartsWithModule(name) THEN Tail(name) ELSE name

\* The target parameter a source name stands for: the one of that name, or
\* else the one named by the source name without its leading "module.".
Target(name) ==
    IF name \in DOMAIN own_state THEN name
    ELSE IF StartsWithModule(name) /\ WithoutPrefix(name) \in DOMAIN own_state
         THEN WithoutPrefix(name)
    ELSE <<>>

\* The step is one iteration of the loop, over the item Item.
Iteration == idx' = idx + 1
Item == state_dict'[idx']

\* C11: when the source item stands for an output layer of the target and the
\* target has more rows than the source, the iteration does not raise, and it
\* leaves the target holding the source rows first and zero rows after them.
C11_OutputLayerGrowthPadsWithZeros ==
    [][ ( /\ Iteration
          /\ Target(Item.name) \in DOMAIN own_state
          /\ IsOutputLayer(Target(Item.name))
          /\ Len(own_state[Target(Item.name)]) > Len(Item.param) )
        => /\ lpc' = "loop"
           /\ own_state'[Target(Item.name)]
                = PadRows(own_state[Target(Item.name)], Item.param)
      ]_vars

\* C12: when the source item stands for a target parameter that is not an
\* output layer and the two shapes differ, the iteration does not raise, it
\* leaves every target parameter as it was, and the name is among the names
\* reported as mismatched.
C12_ShapeMismatchIsSkipped ==
    [][ ( /\ Iteration
          /\ Target(Item.name) \in DOMAIN own_state
          /\ ~IsOutputLayer(Target(Item.name))
          /\ Len(own_state[Target(Item.name)]) # Len(Item.param) )
        => /\ lpc' = "loop"
           /\ own_state' = own_state
           /\ Target(Item.name) \in report'.mismatched
      ]_vars

\* Line 519: `return model`, the one value handed back to the caller.
ReturnValue == [model |-> own_state]

\* The names the returned value carries under a field, none when it has no
\* such field.
Returned(field) == IF field \in DOMAIN ReturnValue THEN ReturnValue[field] ELSE {}

\* C13: when the loader has returned, the names it skipped and the names it
\* found mismatched are the names the returned value carries as skipped and
\* as mismatched.
C13_SkipsAreReturned ==
    lpc = "done"
    => /\ Returned("skipped") = report.skipped
       /\ Returned("mismatched") = report.mismatched

----------------------------------------------------------------------------
\* load_my_state_dict over names in which "module." occurs more than once (a
\* wrapped model that has a submodule called `module`).
NestedNames == { <<"layer">>, <<"module", "layer">>,
                 <<"x", "module", "layer">>, <<"module", "x", "module", "layer">> }

InitLoadNested ==
    /\ \E T \in SUBSET NestedNames : \E shape \in [T -> 1..MaxRows] :
          own_state = [n \in T |-> InitTensor(shape[n])]
    /\ state_dict = <<>>
    /\ idx = 0
    /\ report = [skipped |-> {}, mismatched |-> {}]
    /\ lpc = "loop"

NextLoadNested ==
    \/ (\E name \in NestedNames : \E rows \in 1..MaxRows : LoadItem(name, rows))
          /\ UNCHANGED <<trainVars, stats>>
    \/ LoadReturn /\ UNCHANGED <<trainVars, stats>>

LoadNestedInit == TrainIdle /\ InitLoadNested /\ IdleStats

SpecLoadNested == LoadNestedInit /\ [][NextLoadNested]_vars

\* C20: an iteration over a source name that is not a target name copies the
\* source value into the target parameter named by the source name without
\* its leading "module.", when the source name has that prefix and that
\* parameter exists with the shape of the source; in every other case it
\* leaves every target parameter as it was.
C20_OnlyLeadingPrefixIsStripped ==
    [][ (Iteration /\ Item.name \notin DOMAIN own_state)
        => IF /\ StartsWithModule(Item.name)
              /\ WithoutPrefix(Item.name) \in DOMAIN own_state
              /\ Len(own_state[WithoutPrefix(Item.name)]) = Len(Item.param)
           THEN own_state' = [own_state EXCEPT ![WithoutPrefix(Item.name)] = Item.param]
           ELSE own_state' = own_state
      ]_vars

----------------------------------------------------------------------------
\* src/eval/mahalanobis.py, main(): one pass over the labelled dataset, the
\* mean pass when --mean is not given and the covariance pass when it is.
\* Numbers are integers; a quotient is kept exact, as numerator and
\* denominator.
NUM_CLASSES == 2      \* classes 0..NUM_CLASSES-1 (19 in the program), label NUM_CLASSES is void
ImagePixels == 2      \* pixels of an image
MaxImages == 2        \* len(loader) ranges over 1..MaxImages

Classes == 0..(NUM_CLASSES - 1)
FeatureValues == {1, 2}

\* A pixel of a sample: its label, and the model output at it, which has
\* NUM_CLASSES+1 channels (line 71), here v, 2v, 3v, ...  (One output is
\* enough at a void pixel: it is to be left out of every sum.)
Pixels ==
    {px \in [label : 0..NUM_CLASSES, v : FeatureValues] :
        px.label = NUM_CLASSES => px.v = 1}

\* The samples the loader can yield.  Every operation on a sample is a sum
\* over its pixels, so one sample per multiset of pixels is kept, its pixels
\* in the order of PixelKey.
PixelKey(px) == px.label * 10 + px.v
Images ==
    {img \in [1..ImagePixels -> Pixels] :
        \A p \in 1..(ImagePixels - 1) : PixelKey(img[p]) <= PixelKey(img[p + 1])}
Output(px) == [d \in 0..NUM_CLASSES |-> px.v * (d + 1)]

\* Line 114: result = result[:NUM_CLASSES].
Result(px) == [d \in Classes |-> Output(px)[d]]

RECURSIVE Sum(_)
Sum(f) ==
    IF DOMAIN f = {} THEN 0
    ELSE LET x == CHOOSE x \in DOMAIN f : TRUE
         IN f[x] + Sum([y \in (DOMAIN f) \ {x} |-> f[y]])

Div(x, n) == [num |-> x, den |-> n]
ZeroMatrix == [c \in Classes |-> [d \in Classes |-> 0]]

\* Lines 121 and 133: mask = (labels == c).
MaskAll(px, c) == TRUE
Mask(px, c) == px.label = c

\* Line 124: torch.sum(result[:, mask], dim=1), channel d.
MaskedSum(img, c, d) ==
    Sum([p \in {q \in DOMAIN img : Mask(img[q], c)} |-> Result(img[p])[d]])

\* Line 127: torch.sum(mask).
MaskCount(img, c) == Cardinality({q \in DOMAIN img : Mask(img[q], c)})

\* Lines 135-138: centered = result[:, mask] - pre_computed_mean[c];
\* centered @ centered.T, entry (i, j).
CenteredProduct(img, mean, c, i, j) ==
    Sum([p \in {q \in DOMAIN img : Mask(img[q], c)} |->
            (Result(img[p])[i] - mean[c][i]) * (Result(img[p])[j] - mean[c][j])])

\* Line 152: num_images*512*1024.
PixelsPerImage == 512 * 1024
CovDivisorPerPass(num_images) == PixelsPerImage
CovDivisor(num_images) == num_images * PixelsPerImage

\* The contents of the file given as --mean (line 62).
PrecomputedMeans ==
    { [c \in Classes |-> [d \in Classes |-> a * (c + 1) + d]] : a \in {0, 1} }

\* Lines 53-100.  stats.seen is history: how many pixels of each kind the
\* loader has yielded so far.  (The mean pass reads neither --cpu, but for
\* the device of its tensors, nor pre_computed_mean.)
InitStats ==
    \E mean_is_computed \in BOOLEAN, cpu \in BOOLEAN,
       mean \in PrecomputedMeans \cup {ZeroMatrix} :
       /\ mean_is_computed => mean \in PrecomputedMeans
       /\ ~mean_is_computed => (~cpu /\ mean = ZeroMatrix)
       /\ stats = [pc |-> "loop",
                mean_is_computed |-> mean_is_computed,
                cpu |-> cpu,
                pre_computed_mean |-> mean,
                   cov_matrix |-> ZeroMatrix,
                num_images |-> 0,
                sum_per_class |-> ZeroMatrix,
                pixel_count_per_class |-> [c \in Classes |-> 0],
                seen |-> [px \in Pixels |-> 0],
                saved |-> ZeroMatrix]

\* Lines 102-140: one iteration of the loop over the loader (batch_size 1).
\* In the covariance pass under --cpu, result is a cpu tensor and
\* pre_computed_mean a cuda one (line 63), and line 135 raises.
ProcessImage(img) ==
    /\ stats.pc = "loop"
    /\ stats.num_images < MaxImages
    /\ IF ~stats.mean_is_computed
       THEN stats' = [stats EXCEPT
                !.sum_per_class = [c \in Classes |-> [d \in Classes |->
                                      @[c][d] + MaskedSum(img, c, d)]],
                !.pixel_count_per_class = [c \in Classes |-> @[c] + MaskCount(img, c)],
                !.num_images = @ + 1,
                !.seen = [px \in Pixels |->
                             @[px] + Cardinality({q \in DOMAIN img : img[q] = px})]]
       ELSE IF stats.cpu
       THEN stats' = [stats EXCEPT !.pc = "raised"]
       ELSE stats' = [stats EXCEPT
                !.cov_matrix = [i \in Classes |-> [j \in Classes |->
                                   @[i][j] + Sum([c \in Classes |->
                                       CenteredProduct(img, stats.pre_computed_mean, c, i, j)])]],
                !.num_images = @ + 1,
                !.seen = [px \in Pixels |->
                             @[px] + Cardinality({q \in DOMAIN img : img[q] = px})]]

\* Lines 143-150: the loader is exhausted (it is not empty); the mean pass
\* divides and saves.
SaveMean ==
    /\ stats.pc = "loop"
    /\ stats.num_images >= 1
    /\ ~stats.mean_is_computed
    /\ stats' = [stats EXCEPT
                   !.pc = "saved",
                   !.saved = [c \in Classes |-> [d \in Classes |->
                                IF stats.pixel_count_per_class[c] > 0
                                THEN Div(stats.sum_per_class[c][d],
                                         stats.pixel_count_per_class[c])
                                ELSE Div(stats.sum_per_class[c][d], 1)]]]

\* Lines 151-157: the covariance pass normalizes and saves.
SaveCov ==
    /\ stats.pc = "loop"
    /\ stats.num_images >= 1
    /\ stats.mean_is_computed
    /\ stats' = [stats EXCEPT
                   !.pc = "saved",
                   !.saved = [i \in Classes |-> [j \in Classes |->
                                Div(stats.cov_matrix[i][j], CovDivisor(stats.num_images))]]]

NextStats ==
    \/ (\E img \in Images : ProcessImage(img)) /\ UNCHANGED <<trainVars, loadVars>>
    \/ SaveMean /\ UNCHANGED <<trainVars, loadVars>>
    \/ SaveCov /\ UNCHANGED <<trainVars, loadVars>>

StatsInit == TrainIdle /\ IdleLoad /\ InitStats

SpecStats == StatsInit /\ [][NextStats]_vars

----------------------------------------------------------------------------
\* Properties of the two passes (checked under SpecStats), stated over the
\* pixels the loader has yielded.

SeenPixels == Sum(stats.seen)
SeenImages == SeenPixels \div ImagePixels
Labelled(c) == {px \in Pixels : px.label = c}
ClassPixels(c) == Sum([px \in Labelled(c) |-> stats.seen[px]])
ClassFeatureSum(c, d) == Sum([px \in Labelled(c) |-> stats.seen[px] * Result(px)[d]])

\* The sum, over the classes c and the pixels labelled c, of the entry (i, j)
\* of the outer product of the feature vector centred on the mean of c.
PooledOuter(i, j) ==
    Sum([px \in {k \in Pixels : k.label \in Classes} |->
            stats.seen[px]
            * (Result(px)[i] - stats.pre_computed_mean[px.label][i])
            * (Result(px)[j] - stats.pre_computed_mean[px.label][j])])

\* C15: the saved mean of a class with at least one pixel is the sum of the
\* feature vectors of exactly the pixels labelled with the class, divided by
\* their number; the saved mean of a class with no pixel is all zero.
C15_MeanIsMaskedAverage ==
    (stats.pc = "saved" /\ ~stats.mean_is_computed)
    => \A c \in Classes : \A d \in Classes :
          IF ClassPixels(c) > 0
          THEN /\ stats.saved[c][d].den > 0
               /\ stats.saved[c][d].num * ClassPixels(c)
                    = ClassFeatureSum(c, d) * stats.saved[c][d].den
          ELSE stats.saved[c][d].num = 0

\* A mean pass over MaxImages images in which a class has no pixel, another
\* has pixels of different features, and void pixels occur.
C15_Witness ==
    /\ stats.pc = "saved"
    /\ ~stats.mean_is_computed
    /\ SeenImages = MaxImages
    /\ ClassPixels(0) = 0
    /\ ClassPixels(1) >= 2
    /\ ClassPixels(NUM_CLASSES) >= 1
    /\ ClassFeatureSum(1, 0) % ClassPixels(1) # 0
    /\ stats.saved[1][0] = Div(ClassFeatureSum(1, 0), ClassPixels(1))

\* C16: every entry of the saved covariance is the pooled sum of outer
\* products divided by the number of images times the fixed number of pixels
\* of an image.
C16_CovarianceIsPooledOverImagePixels ==
    (stats.pc = "saved" /\ stats.mean_is_computed)
    => \A i \in Classes : \A j \in Classes :
          /\ stats.saved[i][j].den > 0
          /\ stats.saved[i][j].num * (SeenImages * 512 * 1024)
               = PooledOuter(i, j) * stats.saved[i][j].den

\* A covariance pass over MaxImages images with pixels of more than one class
\* and void pixels, whose pooled sum is not zero.
C16_Witness ==
    /\ stats.pc = "saved"
    /\ stats.mean_is_computed
    /\ SeenImages = MaxImages
    /\ ClassPixels(0) >= 1
    /\ ClassPixels(1) >= 1
    /\ ClassPixels(NUM_CLASSES) >= 1
    /\ PooledOuter(0, 1) # 0
    /\ stats.saved[0][1] = Div(PooledOuter(0, 1), MaxImages * 512 * 1024)

----------------------------------------------------------------------------
\* Properties of the numbered snapshots (checked under SpecSnapshot).

\* The positions of an epoch after lines 412-433.
AfterSnapshot == {"save_model", "save_model_w", "best_txt", "log_row"}
Snapshot == disk[filename(mem.enc, mem.epoch)]

\* C21: with --epochs-save N > 0, once epoch e has passed lines 412-433 its
\* numbered snapshot is on disk exactly when e is a positive multiple of N,
\* whether or not the epoch is a new best.
C21_SnapshotWrittenAtMultiplesOfN ==
    (pc \in AfterSnapshot /\ args.epochs_save > 0)
        => (Snapshot.st = "ok"
               <=> (mem.epoch > 0 /\ mem.epoch % args.epochs_save = 0))

----------------------------------------------------------------------------
\* Properties of the class weights (checked under Spec).

\* The class-weight artifact of an architecture: the file lines 114-119
\* read for it, and the cache of line 110 for the architectures that have
\* no file of their own.
ArchCache(model, enc) ==
    IF WeightFile(model, enc) = "None" THEN class_weights_npy
    ELSE WeightFile(model, enc)

\* C22: once train() has built its loss, the class weights were computed
\* by a pass over the dataset, and written to the architecture's artifact,
\* exactly when that artifact was absent at the start; when it was present
\* the loss is built with the weights read from it and the cache is left
\* as it was.
C22_WeightsComputedOnlyWhenArtifactAbsent ==
    pc = "log_header" =>
        LET a == ArchCache(args.model, mem.enc) IN
        IF Exists(disk0[a])
        THEN /\ mem.weight = a
             /\ mem.criterion.weight = a
             /\ disk[class_weights_npy] = disk0[class_weights_npy]
        ELSE /\ mem.weight = "computed"
             /\ disk[a] = File([weights |-> "computed"])

----------------------------------------------------------------------------
\* Properties of fine-tuning (checked under SpecMain).

\* C23: under --FineTune, with and without --cuda, the freeze of lines
\* 189-202 does not fail, in every epoch only the output layer is trainable,
\* and the other parameters keep the values they had before the first epoch.
C23_FineTuneTrainsOnlyOutputLayer ==
    args.FineTune =>
        /\ pc = "error" => err # "AttributeError: module"
        /\ pc \in InEpoch => (mem.trainable = "output" /\ mem.model.body = 0)

----------------------------------------------------------------------------
\* Properties of the optimizer steps (checked under Spec).

\* The positions from the first validation batch to the write of the
\* rolling checkpoint.
Validating == {"val_batch", "metric", "save_checkpoint", "save_checkpoint_w"}

\* C24: a training batch takes exactly one optimizer step; from the first
\* validation batch of an epoch to the write of its rolling checkpoint the
\* model weights and the optimizer state do not change, so the checkpoint
\* is written after one step per training batch of the epochs run.
C24_OneStepPerTrainingBatchNoneInValidation ==
    [][/\ (pc = "train_batch" /\ pc' \in InEpoch)
            => /\ mem'.optimizer.steps = mem.optimizer.steps + 1
               /\ mem'.model.steps = mem.model.steps + 1
       /\ (pc \in Validating /\ pc' \in InEpoch)
            => /\ mem'.model = mem.model
               /\ mem'.optimizer = mem.optimizer
       /\ pc' = "save_checkpoint_w"
            => mem'.optimizer.steps
                  = (mem'.epoch - mem'.start_epoch + 1) * TrainBatches]_vars

\* The second epoch's validation is over and its checkpoint is being written.
C24_Witness ==
    /\ pc = "save_checkpoint_w"
    /\ mem.epoch = 2
    /\ mem.optimizer.steps = 2 * TrainBatches
    /\ disk[filenameCheckpoint(FALSE)] = Partial

----------------------------------------------------------------------------
\* Properties of the best metric (checked under Spec).

\* The metrics of the epochs of this call of train(), and 0.
SeenMetrics == {0} \cup {hist[i].acc : i \in 1..Len(hist)}
MaxSeen == CHOOSE x \in SeenMetrics : \A y \in SeenMetrics : x >= y
AfterMetric == InEpoch \ {"train_batch", "val_batch", "metric"}
BestFiles == <<disk[filenameBest(mem.enc)], disk[filenamebest(mem.enc)],
               disk[best_txt(mem.enc)]>>

\* C25: in a call of train() that does not resume, the best metric is the
\* maximum of 0 and the epoch metrics seen so far (0 before the first
\* epoch), it never decreases, and an epoch whose metric is not greater than
\* 0 is not the best and writes none of the best checkpoint, the best model
\* file and the best marker.
C25_BestMetricIsRunningMaximum ==
    [][~args.resume =>
          /\ mem.best_acc = MaxSeen
          /\ ~args'.resume => mem'.best_acc = MaxSeen'
          /\ (pc \in InEpoch /\ pc' \in InEpoch \cup {"epoch"})
                => mem'.best_acc >= mem.best_acc
          /\ (pc \in AfterMetric /\ mem.current_acc <= 0)
                => (~mem.is_best /\ BestFiles' = BestFiles)]_vars

\* A second epoch whose metric is a negated loss follows a best first epoch.
C25_Witness ==
    /\ ~args.resume
    /\ pc = "log_row"
    /\ Len(hist) = 2
    /\ hist[1].acc > 0
    /\ hist[2].acc < 0
    /\ mem.best_acc = hist[1].acc
    /\ disk[best_txt(FALSE)] = File([epoch |-> 1, iouVal |-> hist[1].iou])

----------------------------------------------------------------------------
\* Properties of the save directory after an interruption (checked under
\* Spec).

BestCheckpoint == disk[filenameBest(FALSE)]
BestMarkerFile == disk[best_txt(FALSE)]

\* C26: whenever no process is running (it ended or was interrupted at any
\* point), if the rolling checkpoint records a best metric b > 0 then the
\* best checkpoint exists and holds the state of the epoch whose metric
\* was b, and the best marker names that epoch.
C26_BestArtifactsAgreeAfterInterrupt ==
    (pc \in {"off", "done", "error"} /\ Rolling.st = "ok"
        /\ Rolling.data.best_acc > 0)
      => /\ BestCheckpoint.st = "ok"
         /\ BestCheckpoint.data.best_acc = Rolling.data.best_acc
         /\ BestMarkerFile.st = "ok"
         /\ BestMarkerFile.data.iouVal = Rolling.data.best_acc
         /\ BestMarkerFile.data.epoch + 1 = BestCheckpoint.data.epoch

----------------------------------------------------------------------------
\* Properties of the two phases' artifacts (checked under SpecSnapshot).

\* The files a call train(args, model, enc) names after its phase (lines
\* 157-162, 386-391, 412-417, 442-447).
PhaseArtifacts(enc) ==
    {automated_log_path(enc), modeltxtpath(enc), filenameCheckpoint(enc),
     filenameBest(enc), filenamebest(enc), best_txt(enc)}
    \cup {filename(enc, n) : n \in 1..MaxEpochs}

\* C27: the encoder call and the decoder call have disjoint artifacts, a
\* step of the enc=True call changes none of the enc=False artifacts and a
\* step of the enc=False call none of the enc=True ones, and each call of
\* train() starts with its own best metric of 0.
C27_PhasesKeepDisjointArtifacts ==
    [][/\ PhaseArtifacts(TRUE) \cap PhaseArtifacts(FALSE) = {}
       /\ \A p \in PhaseArtifacts(TRUE) : disk'[p] # disk[p] => mem.enc
       /\ \A p \in PhaseArtifacts(FALSE) : disk'[p] # disk[p] => ~mem.enc
       /\ pc' = "class_weights" => mem'.best_acc = 0
       /\ (pc = "decoder_training" /\ pc' = "train")
             => (~mem'.enc /\ mem'.best_acc = 0)]_vars

\* Both phases have run with --epochs-save 1: the encoder's checkpoint
\* records a best metric above 0, the decoder's records 0, and each phase
\* has its own log, snapshot and rolling checkpoint.
C27_Witness ==
    /\ pc = "done"
    /\ ~args.decoder
    /\ args.epochs_save = 1
    /\ disk[filenameCheckpoint(TRUE)].st = "ok"
    /\ disk[filenameCheckpoint(TRUE)].data.best_acc > 0
    /\ disk[filenameBest(TRUE)].st = "ok"
    /\ disk[best_txt(TRUE)].st = "ok"
    /\ disk[filenameCheckpoint(FALSE)].st = "ok"
    /\ disk[filenameCheckpoint(FALSE)].data.best_acc = 0
    /\ disk[filenameBest(FALSE)].st = "absent"
    /\ disk[filename(TRUE, 1)].st = "ok"
    /\ disk[filename(FALSE, 1)].st = "ok"
    /\ Rows(disk[automated_log_path(TRUE)]) = UpTo(args.num_epochs)
    /\ Rows(disk[automated_log_path(FALSE)]) = UpTo(args.num_epochs)

====
